---- MODULE Spec2Model ----
(***************************************************************************)
(* Model of the aegis-core execution and recovery subsystem:               *)
(*   - SQLiteSessionStore (packages/skills/src/tools/fs.ts)                *)
(*   - InMemoryEventBus   (packages/core/src/bus.ts)                       *)
(*   - AgentLoop          (unnamed/part_009)                               *)
(***************************************************************************)
EXTENDS Integers, Sequences, FiniteSets, TLC

VARIABLES
  db,          \* the SQLite database file: tables sessions and events
  storeOpen,   \* whether the store's connection is open
  clock,       \* the wall clock read by new Date()
  accepted,    \* ghost: per session, the messages appended through update, in call order
  allComplete, \* ghost: every update so far passed the complete history
  lastOp,      \* ghost: the last store call made by a client and what it observed
  subscribers, \* InMemoryEventBus.subscribers, in insertion order
  sessionStore,\* whether the loop was constructed with a session store
  history,     \* AgentLoop.history
  currentSessionId, \* AgentLoop.currentSessionId
  procs,       \* the invocations of the loop's turn handler, each with its position
  turns,       \* the agent.turn events published so far
  published,   \* the events the loop passed to bus.publish, in order
  busCalls,    \* the publish calls made by the bus's clients, each with what it did
  requests,    \* the request calls made by the bus's clients, each with its timer
  unsubscribed,\* ghost: the ids of the subscriptions whose unsubscribe has returned
  stoppedAt    \* ghost: how many turns had been published when the gateway was
               \* stopped, -1 while it runs

storeVars == <<db, storeOpen, clock>>
clientVars == <<accepted, allComplete, lastOp>>
busVars == <<busCalls, requests, unsubscribed>>
loopVars == <<subscribers, sessionStore, history, currentSessionId, procs, turns,
              published, busVars, stoppedAt>>
vars == <<db, storeOpen, clock, accepted, allComplete, lastOp, subscribers,
          sessionStore, history, currentSessionId, procs, turns, published,
          busCalls, requests, unsubscribed, stoppedAt>>

(***************************************************************************)
(* Bounds and input sets                                                   *)
(***************************************************************************)
MaxEvents == 2

SessionIds == {"s1", "s2"}
AgentId == "agent-a"

Undefined == "undefined"
NULL == "NULL"

Min(a, b) == IF a < b THEN a ELSE b
Max(a, b) == IF a > b THEN a ELSE b

(***************************************************************************)
(* SQLiteSessionStore                                                      *)
(***************************************************************************)

\* A row absent from table sessions.
NoRow == [present |-> FALSE, depth |-> 0, parent_session_id |-> NULL,
          created_at |-> 0, updated_at |-> 0]

\* The database right after the first migrate(): both tables empty.
EmptyDb == [sessions |-> [s \in SessionIds |-> NoRow], events |-> <<>>]

\* SELECT * FROM events WHERE session_id = id, in rowid (insertion) order.
RECURSIVE EventsOf(_, _)
EventsOf(rows, id) ==
  IF rows = <<>> THEN <<>>
  ELSE IF Head(rows).session_id = id
       THEN <<Head(rows)>> \o EventsOf(Tail(rows), id)
       ELSE EventsOf(Tail(rows), id)

\* SELECT COUNT(*) FROM events WHERE session_id = id
CountEvents(d, id) == Len(EventsOf(d.events, id))

\* One step of ORDER BY timestamp ASC over idx_events_session(session_id, timestamp):
\* the row goes after every row whose timestamp is not larger (ties keep rowid order).
RECURSIVE InsertByTimestamp(_, _)
InsertByTimestamp(sorted, r) ==
  IF sorted = <<>> THEN <<r>>
  ELSE IF Head(sorted).timestamp <= r.timestamp
       THEN <<Head(sorted)>> \o InsertByTimestamp(Tail(sorted), r)
       ELSE <<r>> \o sorted

RECURSIVE OrderByTimestamp(_)
OrderByTimestamp(rows) ==
  IF rows = <<>> THEN <<>>
  ELSE InsertByTimestamp(OrderByTimestamp(SubSeq(rows, 1, Len(rows) - 1)),
                         rows[Len(rows)])

\* events.map(e => ({role, content, timestamp, toolCallId: e.tool_call_id ?? undefined}))
RowToMessage(e) ==
  [role |-> e.role, content |-> e.content, timestamp |-> e.timestamp,
   toolCallId |-> IF e.tool_call_id = NULL THEN Undefined ELSE e.tool_call_id]

\* insert.run(uuidv7(), id, msg.role, msg.content, msg.timestamp, msg.toolCallId ?? null)
MessageToRow(id, msg) ==
  [session_id |-> id, role |-> msg.role, content |-> msg.content,
   timestamp |-> msg.timestamp,
   tool_call_id |-> IF msg.toolCallId = Undefined THEN NULL ELSE msg.toolCallId]

MapSeq(s, F(_)) == [i \in 1..Len(s) |-> F(s[i])]

\* get(id): the session's history (or absent), or a throw when the connection is closed.
get(d, open, id) ==
  IF ~open THEN [threw |-> TRUE, found |-> FALSE, history |-> <<>>]
  ELSE IF ~d.sessions[id].present
       THEN [threw |-> FALSE, found |-> FALSE, history |-> <<>>]
       ELSE [threw |-> FALSE, found |-> TRUE,
             history |-> MapSeq(OrderByTimestamp(EventsOf(d.events, id)), RowToMessage)]

\* Faulty variant: no diff against the stored count, the whole history is inserted again.
SliceNothing(h, existingCount) == h

\* patch.history.slice(existingCount)
Slice(h, existingCount) ==
  SubSeq(h, existingCount + 1, Len(h))

\* A row SQLite refuses: column content is declared NOT NULL.
Refused(r) == r.content = NULL

\* Faulty variant: the rows are inserted one by one outside a transaction, so those
\* before a refused row stay.
RECURSIVE insertEach(_, _)
insertEach(rows, new) ==
  IF new = <<>> THEN [rows |-> rows, threw |-> FALSE]
  ELSE IF Refused(Head(new)) THEN [rows |-> rows, threw |-> TRUE]
       ELSE insertEach(Append(rows, Head(new)), Tail(new))

\* insertMany(newMessages): one transaction; a refused row rolls all of them back.
insertMany(rows, new) ==
  IF \E i \in 1..Len(new) : Refused(new[i])
  THEN [rows |-> rows, threw |-> TRUE]
  ELSE [rows |-> rows \o new, threw |-> FALSE]

\* update(id, {history}) at wall-clock time now: the database afterwards and whether
\* the call threw (closed connection, or a FOREIGN KEY failure rolling the insert back).
update(d, open, id, h, now) ==
  IF ~open THEN [db |-> d, threw |-> TRUE]
  ELSE
    LET touched == IF d.sessions[id].present
                   THEN [d EXCEPT !.sessions[id].updated_at = now]
                   ELSE d
        newMessages == Slice(h, CountEvents(d, id))
        inserted == MapSeq(newMessages, LAMBDA m : MessageToRow(id, m))
    IN IF Len(h) > 0 /\ newMessages # <<>>
       THEN IF ~d.sessions[id].present
            THEN [db |-> touched, threw |-> TRUE]
            ELSE LET res == insertMany(touched.events, inserted)
                 IN [db |-> [touched EXCEPT !.events = res.rows], threw |-> res.threw]
       ELSE [db |-> touched, threw |-> FALSE]

\* create(agentId, parentSessionId?) with the fresh uuid id at wall-clock time now.
\* Faulty variant: the parent's row is not read, every parent counts as a root.
getDepthOfRoot(d, parent) == 0

getDepth(d, parent) ==
  IF d.sessions[parent].present THEN d.sessions[parent].depth ELSE 0

create(d, id, parent, now) ==
  [d EXCEPT !.sessions[id] =
     [present |-> TRUE,
      depth |-> IF parent = Undefined THEN 0 ELSE getDepth(d, parent) + 1,
      parent_session_id |-> IF parent = Undefined THEN NULL ELSE parent,
      created_at |-> now, updated_at |-> now]]

\* delete(id): the session's events, then its row.
RECURSIVE DeleteEvents(_, _)
DeleteEvents(rows, id) ==
  IF rows = <<>> THEN <<>>
  ELSE IF Head(rows).session_id = id THEN DeleteEvents(Tail(rows), id)
       ELSE <<Head(rows)>> \o DeleteEvents(Tail(rows), id)

delete(d, id) ==
  [d EXCEPT !.events = DeleteEvents(@, id), !.sessions[id] = NoRow]

(***************************************************************************)
(* InMemoryEventBus                                                        *)
(***************************************************************************)

\* An EventFilter with its handler. hasTopics tells an absent topic list from a
\* given one; predicate is "none" when absent, else what the function does: return
\* true or false, throw, or ("partial") throw on the events it is not written for.
Subscription(id, hasTopics, topics, target, predicate, handler) ==
  [id |-> id, hasTopics |-> hasTopics, topics |-> topics,
   sourceAgentId |-> Undefined, targetAgentId |-> target,
   predicate |-> predicate, handler |-> handler]

\* Faulty variant: an agent id of the filter is compared only with an id the event has.
matchesPresentIds(event, filter, odd) ==
  IF filter.hasTopics /\ event.topic \notin filter.topics THEN "false"
  ELSE IF filter.sourceAgentId # Undefined /\ event.sourceAgentId # Undefined
          /\ event.sourceAgentId # filter.sourceAgentId
       THEN "false"
  ELSE IF filter.targetAgentId # Undefined /\ event.targetAgentId # Undefined
          /\ event.targetAgentId # filter.targetAgentId
       THEN "false"
  ELSE IF filter.predicate = "throws" THEN "throws"
  ELSE IF filter.predicate = "partial" /\ odd THEN "throws"
  ELSE IF filter.predicate = "false" THEN "false"
  ELSE "true"

\* matches(event, filter): "true", "false", or "throws" when the predicate throws;
\* odd tells whether the event is one a partial predicate throws on.
matches(event, filter, odd) ==
  IF filter.hasTopics /\ event.topic \notin filter.topics THEN "false"
  ELSE IF filter.sourceAgentId # Undefined /\ event.sourceAgentId # filter.sourceAgentId
       THEN "false"
  ELSE IF filter.targetAgentId # Undefined /\ event.targetAgentId # filter.targetAgentId
       THEN "false"
  ELSE IF filter.predicate = "throws" THEN "throws"
  ELSE IF filter.predicate = "partial" /\ odd THEN "throws"
  ELSE IF filter.predicate = "false" THEN "false"
  ELSE "true"

\* The for loop of publish over the subscribers: the subscriptions whose handler is
\* invoked, in order, and whether matches threw (which ends the loop and makes
\* publish reject).
RECURSIVE publish(_, _, _)
publish(subs, event, odd) ==
  IF subs = <<>> THEN [invoked |-> <<>>, threw |-> FALSE]
  ELSE LET m == matches(event, Head(subs), odd)
       IN IF m = "throws" THEN [invoked |-> <<>>, threw |-> TRUE]
          ELSE LET rest == publish(Tail(subs), event, odd)
               IN IF m = "true"
                  THEN [invoked |-> <<Head(subs)>> \o rest.invoked, threw |-> rest.threw]
                  ELSE rest

\* createTraceContext(parent?): ids are fresh uuids; 0 stands for no parent span.
createTraceContext(hasParent, parent, id) ==
  IF hasParent
  THEN [traceId |-> parent.traceId, spanId |-> id, parentSpanId |-> parent.spanId]
  ELSE [traceId |-> id, spanId |-> id + 1, parentSpanId |-> 0]

(***************************************************************************)
(* Model adapter and tools (external collaborators)                        *)
(***************************************************************************)
MAX_ITERATIONS == 10

\* What an adapter does in one turn: toolRounds rounds that request the tool calls
\* named in calls (with a text or without), then a final text, an empty result, or a
\* throw.
Script(toolRounds, calls, withText, final) ==
  [toolRounds |-> toolRounds, calls |-> calls, withText |-> withText, final |-> final]

ToolNames == {"fs.write", "fs.read", "missing"}

\* The ToolCall list of round i of turn t: ids are unique per turn, round and position.
ToolCalls(t, i, names) ==
  [k \in 1..Len(names) |->
     [id |-> "call_" \o ToString(t) \o "_" \o ToString(i) \o "_" \o ToString(k),
      name |-> names[k]]]

\* model.generate in round i of turn t.
generate(script, t, i) ==
  IF i < script.toolRounds
  THEN [threw |-> FALSE, text |-> IF script.withText THEN "thinking" ELSE "",
        toolCalls |-> ToolCalls(t, i, script.calls)]
  ELSE IF script.final = "throw"
       THEN [threw |-> TRUE, text |-> "", toolCalls |-> <<>>]
       ELSE [threw |-> FALSE, text |-> IF script.final = "text" THEN "Done" ELSE "",
             toolCalls |-> <<>>]

GenerateError == "Error: model unavailable"
StorageError == "TypeError: The database connection is not open"
PredicateError == "Error: predicate failed"
MaxIterationsError == "Max iterations reached"

\* nativeTools.get(name) and tool.execute(args): fs.write succeeds, fs.read throws
\* (no such file), any other name is not registered.
nativeToolsGet(name) == name \in {"fs.write", "fs.read"}
execute(name) ==
  IF name = "fs.write" THEN [threw |-> FALSE, value |-> "Wrote 11 bytes to hello.txt"]
  ELSE [threw |-> TRUE, value |-> "ENOENT: no such file or directory"]

(***************************************************************************)
(* A client of the store: create / update / get / close / re-open          *)
(***************************************************************************)

\* Messages a client appends: with and without a tool call id, stamped by the
\* client in either order of time.
Timestamps == {0, 1}

ClientMessages ==
  { [role |-> "user", content |-> "A", toolCallId |-> Undefined],
    [role |-> "tool", content |-> "C", toolCallId |-> "call_1"] }

Stamp(m, ts) ==
  [role |-> m.role, content |-> m.content, timestamp |-> ts, toolCallId |-> m.toolCallId]

Stamped == { Stamp(m, ts) : m \in ClientMessages, ts \in Timestamps }

\* What one update call appends to the caller's view: one or two new messages.
Appends ==
  {<<>>} \cup { <<m>> : m \in Stamped }
         \cup { <<m, Stamp(CHOOSE c \in ClientMessages : c.role = "tool", m.timestamp)>> :
                  m \in Stamped }

NoOp == [op |-> "none", id |-> "s1", threw |-> FALSE, history |-> <<>>, before |-> <<>>]

InitStore ==
  /\ db = EmptyDb
  /\ storeOpen = TRUE
  /\ clock = 0
  /\ accepted = [s \in SessionIds |-> <<>>]
  /\ allComplete = TRUE
  /\ lastOp = NoOp
  /\ subscribers = <<>>
  /\ sessionStore = TRUE
  /\ history = <<>>
  /\ currentSessionId = Undefined
  /\ procs = <<>>
  /\ turns = <<>>
  /\ published = <<>>
  /\ busCalls = <<>>
  /\ requests = <<>>
  /\ unsubscribed = {}
  /\ stoppedAt = -1

\* create(agentId, parentSessionId); the clock has moved on by the next call.
Create ==
  /\ storeOpen
  /\ \E id \in SessionIds, parent \in SessionIds \cup {Undefined} :
       /\ ~db.sessions[id].present
       /\ parent # id
       /\ db' = create(db, id, parent, clock)
       /\ lastOp' = [NoOp EXCEPT !.op = "create", !.id = id]
  /\ clock' = clock + 1
  /\ UNCHANGED <<storeOpen, accepted, allComplete, loopVars>>

\* update(id, {history}): the caller passes its view of the session (the first seen
\* messages appended so far: all of them, or a stale or empty view) plus new messages.
Update ==
  /\ Len(db.events) < MaxEvents
  /\ \E id \in SessionIds, new \in Appends, seen \in 0..MaxEvents :
       LET full == SubSeq(accepted[id], 1, seen) \o new
           res == update(db, storeOpen, id, full, clock)
       IN /\ seen <= Len(accepted[id])
          /\ db' = res.db
          /\ accepted' = IF res.threw \/ seen < Len(accepted[id]) THEN accepted
                         ELSE [accepted EXCEPT ![id] = full]
          /\ allComplete' = (allComplete /\ seen = Len(accepted[id]))
          /\ lastOp' = [op |-> "update", id |-> id, threw |-> res.threw,
                        history |-> full, before |-> EventsOf(db.events, id)]
  /\ UNCHANGED <<storeOpen, clock, loopVars>>

Get ==
  /\ \E id \in SessionIds :
       LET res == get(db, storeOpen, id)
       IN lastOp' = [op |-> IF res.found THEN "get" ELSE "get-absent", id |-> id,
                     threw |-> res.threw, history |-> res.history,
                     before |-> EventsOf(db.events, id)]
  /\ UNCHANGED <<db, storeOpen, clock, accepted, allComplete, loopVars>>

\* close(): the connection is closed; the database file keeps every committed row.
Close ==
  /\ storeOpen
  /\ storeOpen' = FALSE
  /\ lastOp' = [NoOp EXCEPT !.op = "close"]
  /\ UNCHANGED <<db, clock, accepted, allComplete, loopVars>>

\* new SQLiteSessionStore(dbPath) on the same file: migrate() is idempotent.
Reopen ==
  /\ ~storeOpen
  /\ storeOpen' = TRUE
  /\ lastOp' = [NoOp EXCEPT !.op = "reopen"]
  /\ UNCHANGED <<db, clock, accepted, allComplete, loopVars>>

NextStore == Create \/ Update \/ Get \/ Close \/ Reopen

SpecStore == InitStore /\ [][NextStore]_vars

(***************************************************************************)
(* AgentLoop                                                               *)
(***************************************************************************)

ChatMessage(role, content, toolCallId, name, toolCalls) ==
  [role |-> role, content |-> content, toolCallId |-> toolCallId, name |-> name,
   toolCalls |-> toolCalls]

\* buildSystemPrompt(config, skills)
SystemPrompt ==
  ChatMessage("system", "You are an intelligent agent running on Project Aegis.",
              Undefined, Undefined, <<>>)

\* session.history.map(msg => ({role, content, toolCallId}))
StoredToChat(msg) == ChatMessage(msg.role, msg.content, msg.toolCallId, Undefined, <<>>)

\* The argument of persistMessage.
Persisted(role, content, toolCallId) ==
  [role |-> role, content |-> content, toolCallId |-> toolCallId]

NoSession == [threw |-> FALSE, found |-> FALSE, history |-> <<>>]

\* One invocation of the subscribed handler for turn event number t. pc is the await
\* it is suspended at; settled is how the handler's promise ended; seen is the
\* history the pending generate call was given.
NewProc(p, t) ==
  [proc |-> p, turn |-> t, pc |-> "new", settled |-> "pending", sent |-> 0, i |-> 0,
   gens |-> 0, seen |-> <<>>,
   text |-> "", calls |-> <<>>, k |-> 0, sess |-> NoSession,
   msg |-> Persisted("user", "", Undefined), cont |-> "user", err |-> ""]

\* uuidv7() inside the handler invocation pr: a value no other call returns.
FreshId(pr) == 100 * pr.proc + 10 * pr.sent

\* Faulty variant: no try/catch around handleTurn, the handler's promise just rejects.
Uncaught(pr, err) == [pr EXCEPT !.pc = "done", !.settled = "rejected", !.err = err]

\* A throw anywhere under handleTurn reaches the catch of the subscribed handler.
onThrow(pr, err) == [pr EXCEPT !.pc = "catch", !.err = err]

\* Faulty variant: the terminal event is built from a root trace context.
createRootEvent(topic, payload, trace, id) ==
  [id |-> id, topic |-> topic, payload |-> payload,
   traceCtx |-> [traceId |-> id + 1, spanId |-> id + 1, parentSpanId |-> 0],
   sourceAgentId |-> AgentId, targetAgentId |-> Undefined]

\* AgentLoop.createEvent(topic, payload, trace); id and id + 1 are the fresh uuids.
createEvent(topic, payload, trace, id) ==
  [id |-> id, topic |-> topic, payload |-> payload,
   traceCtx |-> [traceId |-> trace.traceId, spanId |-> id + 1,
                 parentSpanId |-> trace.spanId],
   sourceAgentId |-> AgentId, targetAgentId |-> Undefined]

\* The synchronous part of persistMessage(msg) with this.currentSessionId = cur: an
\* early return, or the call of sessionStore.get (up tells whether storage can be
\* reached at that moment).
persistMessage(pr, cur, msg, cont, up) ==
  IF ~sessionStore \/ cur = Undefined
  THEN [pr EXCEPT !.pc = "persist_ret", !.cont = cont]
  ELSE [pr EXCEPT !.pc = "persist_get", !.sess = get(db, storeOpen /\ up, cur),
                  !.msg = msg, !.cont = cont]

\* await this.bus.publish(createEvent(topic, payload, trace)) inside runLoop: the
\* turn is over, unless publish rejects, which throws out of runLoop.
publishTerminal(pr, topic, payload, h, odd) ==
  LET ev == createEvent(topic, payload, turns[pr.turn].traceCtx, FreshId(pr))
      res == publish(subscribers, ev, odd)
      sent == [pr EXCEPT !.sent = @ + 1]
  IN [proc |-> IF res.threw THEN onThrow(sent, PredicateError)
               ELSE [sent EXCEPT !.pc = "done", !.settled = "fulfilled"],
      history |-> h, events |-> <<ev>>, invoked |-> res.invoked]

\* executeTool(name, args): the output string; a missing tool or a throw of execute
\* becomes an error text.
executeTool(name) ==
  IF ~nativeToolsGet(name)
  THEN [threw |-> FALSE, value |-> "Error: Tool \"" \o name \o "\" not found"]
  ELSE LET r == execute(name)
       IN IF r.threw THEN [threw |-> FALSE, value |-> "Error: " \o r.value] ELSE r

\* The for condition of runLoop.
loopGoesOn(i) == i < MAX_ITERATIONS

\* The head of the for loop of runLoop for iteration i: call generate, or publish
\* the max-iterations error after the loop.
iterate(pr, i, h, odd) ==
  IF loopGoesOn(i)
  THEN [proc |-> [pr EXCEPT !.pc = "generate", !.i = i, !.gens = @ + 1, !.seen = h,
                            !.text = "", !.calls = <<>>, !.k = 0],
        history |-> h, events |-> <<>>, invoked |-> <<>>]
  ELSE publishTerminal([pr EXCEPT !.i = i], "agent.error",
                       [message |-> Undefined, error |-> MaxIterationsError], h, odd)

\* runLoop after the text of a result was handled: publish agent.complete when
\* there are no tool calls, else push the placeholder and execute the first call.
afterText(pr, h, odd) ==
  IF pr.calls = <<>>
  THEN publishTerminal(pr, "agent.complete",
                       [message |-> pr.text, error |-> Undefined], h, odd)
  ELSE [proc |-> [pr EXCEPT !.pc = "tool", !.k = 1],
        history |-> Append(h, ChatMessage("assistant", "", Undefined, Undefined, pr.calls)),
        events |-> <<>>, invoked |-> <<>>]

\* The handler up to its first await: handleTurn with its hydration test and, without
\* a store or session id, the push of the user message.
handleTurn(h, p, t, ev, up) ==
  LET sid == ev.payload.sessionId
      user == ev.payload.message
  IN IF sessionStore /\ sid # Undefined
     THEN IF currentSessionId = sid
          THEN [history |-> h, proc |-> [NewProc(p, t) EXCEPT !.pc = "hydrate_ret"]]
          ELSE [history |-> h,
                proc |-> [NewProc(p, t) EXCEPT !.pc = "hydrate_get",
                                               !.sess = get(db, storeOpen /\ up, sid)]]
     ELSE [history |-> Append(h, ChatMessage("user", user, Undefined, Undefined, <<>>)),
           proc |-> persistMessage(NewProc(p, t), currentSessionId,
                                   Persisted("user", user, Undefined), "user", up)]

\* publish invokes the handlers one after the other; each loop handler runs to its
\* first await. acc carries the history and the handler invocations.
RECURSIVE invokeHandlers(_, _, _, _, _)
invokeHandlers(invoked, acc, t, ev, up) ==
  IF invoked = <<>> THEN acc
  ELSE IF Head(invoked).handler = "loop"
       THEN LET r == handleTurn(acc.history, Len(acc.procs) + 1, t, ev, up)
            IN invokeHandlers(Tail(invoked),
                 [history |-> r.history, procs |-> Append(acc.procs, r.proc)], t, ev, up)
       ELSE invokeHandlers(Tail(invoked), acc, t, ev, up)

(***************************************************************************)
(* The loop on a bus with observers, a store and publishers of turns       *)
(***************************************************************************)
MaxTurns == 2
MaxStarts == 1

\* The handler invocations the model follows.
ProcIds == 1..2

\* Subscriptions made by callers that wait for terminal events; the second one has
\* a predicate that throws on some events.
Observer == Subscription("obs-1", TRUE, {"agent.complete", "agent.error"}, Undefined,
                         "none", "observer")
PartialObserver == Subscription("obs-2", TRUE, {"agent.complete", "agent.error"},
                                Undefined, "partial", "observer")
Observers == <<Observer, PartialObserver>>

\* The database a loop starts on: session s1 was created and holds one earlier
\* message; no session s2 exists.
StoredOld == [role |-> "user", content |-> "old", timestamp |-> 0, toolCallId |-> Undefined]
LoopDb == update(create(EmptyDb, "s1", Undefined, 0), TRUE, "s1", <<StoredOld>>, 0).db

\* Adapter behaviours of turns that may run concurrently, and of a turn that runs
\* alone up to the iteration cap.
ShortScripts ==
  { Script(0, <<>>, FALSE, f) : f \in {"text", "empty", "throw"} }
    \cup { Script(1, <<"fs.read", "fs.write">>, FALSE, "text"),
           Script(1, <<"missing">>, TRUE, "text") }
LongScripts ==
  { Script(n, <<"fs.write">>, FALSE, "text") : n \in {MAX_ITERATIONS - 1, MAX_ITERATIONS} }

\* The adapter behaviour in a turn published after another one.
FollowerScripts == { Script(0, <<>>, FALSE, "text") }

IsLong(script) == script \in LongScripts

LoopSubs == { i \in 1..Len(subscribers) : subscribers[i].handler = "loop" }

Init ==
  /\ db = LoopDb
  /\ storeOpen = TRUE
  /\ clock = 0
  /\ accepted = [s \in SessionIds |-> <<>>]
  /\ allComplete = TRUE
  /\ lastOp = NoOp
  /\ subscribers = Observers
  /\ sessionStore \in BOOLEAN
  /\ history = <<>>
  /\ currentSessionId = Undefined
  /\ procs = <<>>
  /\ turns = <<>>
  /\ published = <<>>
  /\ busCalls = <<>>
  /\ requests = <<>>
  /\ unsubscribed = {}
  /\ stoppedAt = -1

\* The faults of the environment, explored while n turns have been published:
\* whether storage is reachable at a store call, and whether a published event is
\* one a partial predicate throws on.
StoreUp(n) == IF Len(turns) = n THEN BOOLEAN ELSE {TRUE}
OddEvent(n) == IF Len(turns) = n THEN BOOLEAN ELSE {FALSE}

\* Whether a handler invocation after the first n made a store call in its
\* synchronous part (only then does the reachability of storage matter).
UsesStore(ps, n) ==
  \E q \in (n + 1)..Len(ps) : ps[q].pc \in {"hydrate_get", "persist_get"}

\* start(): push the system prompt and subscribe to agent.turn for this agent.
StartUpTo(n) ==
  /\ Cardinality(LoopSubs) < n
  /\ history' = Append(history, SystemPrompt)
  /\ subscribers' = Append(subscribers,
       Subscription("loop-" \o ToString(Cardinality(LoopSubs) + 1), TRUE,
                    {"agent.turn"}, AgentId, "none", "loop"))
  /\ UNCHANGED <<stoppedAt, busVars, storeVars, clientVars, sessionStore, currentSessionId, procs, turns,
                 published>>

Start == StartUpTo(MaxStarts)

\* A caller publishes an agent.turn event for the agent on a fresh trace, at a later
\* clock reading than the turn before. The scenarios followed: any adapter script
\* for a first turn handled once, the plain final answer for a turn that follows
\* another, is not handled, or is handled more than once; a turn of 9 or 10 tool
\* rounds runs alone.
TurnPublished(subs, targets, scripts) ==
  /\ Len(turns) < MaxTurns
  /\ Len(procs) + Cardinality(LoopSubs) <= Cardinality(ProcIds)
  /\ \A j \in 1..Len(turns) : ~IsLong(turns[j].script)
  /\ \E sid \in SessionIds \cup {Undefined}, script \in scripts,
        up \in StoreUp(0), target \in targets :
       LET t == Len(turns) + 1
           ev == [id |-> t, topic |-> "agent.turn",
                  payload |-> [message |-> "m" \o ToString(t), sessionId |-> sid],
                  traceCtx |-> createTraceContext(FALSE, [traceId |-> 0, spanId |-> 0],
                                                  10 * t),
                  sourceAgentId |-> Undefined, targetAgentId |-> target]
           res == publish(subs, ev, FALSE)
           acc == invokeHandlers(res.invoked, [history |-> history, procs |-> procs],
                                 t, ev, up)
       IN /\ turns # <<>> => script \in FollowerScripts
          /\ Len(acc.procs) = Len(procs) => script \in FollowerScripts
          /\ IsLong(script) => Len(acc.procs) = 1
          /\ script.toolRounds > 0 => Len(acc.procs) = Len(procs) + 1
          /\ turns' = Append(turns, [traceCtx |-> ev.traceCtx, payload |-> ev.payload,
                                     script |-> script, threw |-> res.threw,
                                     targetAgentId |-> target])
          /\ history' = acc.history
          /\ procs' = acc.procs
          /\ UsesStore(acc.procs, Len(procs)) \/ up
  /\ clock' = clock + 1
  /\ UNCHANGED <<stoppedAt, db, storeOpen, clientVars, sessionStore, currentSessionId,
                 published>>

PublishTurnTo(targets, scripts) ==
  /\ TurnPublished(subscribers, targets, scripts)
  /\ UNCHANGED <<subscribers, busVars>>

PublishTurn == PublishTurnTo({AgentId}, ShortScripts \cup LongScripts)

At(p, pc) == p \in 1..Len(procs) /\ procs[p].pc = pc

\* The handlers of the callers' reply subscriptions among the subscriptions a
\* publish invoked: each clears its timer, unsubscribes, and resolves its promise
\* with the event it was handed.
replyHandlers(subs, gone, reqs, invoked, events) ==
  LET ids == { invoked[i].id : i \in { j \in 1..Len(invoked) : invoked[j].handler = "reply" } }
  IN [subs |-> SelectSeq(subs, LAMBDA s : s.id \notin ids),
      removed |-> gone \cup ids,
      requests |-> [r \in 1..Len(reqs) |->
                      IF reqs[r].sub \in ids
                      THEN [reqs[r] EXCEPT !.timer = "cleared", !.handled = @ + 1,
                                           !.outcome = IF @ = "pending" THEN "resolved" ELSE @,
                                           !.reply = IF reqs[r].outcome = "pending"
                                                     THEN events[1].id ELSE @]
                      ELSE reqs[r]]]

\* What a step of handler invocation p does to the loop's own state and, through
\* the events it publishes, to the callers that wait for a reply.
Apply(p, r) ==
  /\ procs' = [procs EXCEPT ![p] = r.proc]
  /\ history' = r.history
  /\ published' = published \o r.events
  /\ LET out == replyHandlers(subscribers, unsubscribed, requests, r.invoked, r.events)
     IN /\ subscribers' = out.subs
        /\ unsubscribed' = out.removed
        /\ requests' = out.requests

Stay(pr, h) == [proc |-> pr, history |-> h, events |-> <<>>, invoked |-> <<>>]

\* hydrateFromSession after sessionStore.get settled.
HydrateGet(p) ==
  /\ At(p, "hydrate_get")
  /\ LET pr == [procs[p] EXCEPT !.sess = NoSession]
         sess == procs[p].sess
     IN Apply(p,
          IF sess.threw THEN Stay(onThrow(pr, StorageError), history)
          ELSE IF ~sess.found \/ sess.history = <<>>
               THEN Stay([pr EXCEPT !.pc = "hydrate_ret"], history)
               ELSE Stay([pr EXCEPT !.pc = "hydrate_ret"],
                         <<history[1]>> \o MapSeq(sess.history, StoredToChat)))
  /\ UNCHANGED <<stoppedAt, busCalls, storeVars, clientVars, sessionStore, currentSessionId, turns>>

\* handleTurn after hydrateFromSession returned: set the current session, push the
\* user message and start persisting it.
HydrateRet(p) ==
  /\ At(p, "hydrate_ret")
  /\ \E up \in StoreUp(1) :
       LET pr == procs[p]
           sid == turns[pr.turn].payload.sessionId
           user == turns[pr.turn].payload.message
           next == persistMessage(pr, sid, Persisted("user", user, Undefined), "user", up)
       IN /\ next.pc = "persist_get" \/ up
          /\ currentSessionId' = sid
          /\ Apply(p, Stay(next, Append(history, ChatMessage("user", user, Undefined,
                                                             Undefined, <<>>))))
  /\ UNCHANGED <<stoppedAt, busCalls, storeVars, clientVars, sessionStore, turns>>

\* persistMessage after sessionStore.get settled: return when the session is
\* absent, else stamp the message and call sessionStore.update.
PersistGet(p) ==
  /\ At(p, "persist_get")
  /\ \E up \in StoreUp(1) :
       LET pr == [procs[p] EXCEPT !.sess = NoSession,
                                  !.msg = Persisted("user", "", Undefined)]
           sess == procs[p].sess
           conversationMsg == Stamp(procs[p].msg, clock)
           res == update(db, storeOpen /\ up, currentSessionId,
                         sess.history \o <<conversationMsg>>, clock)
       IN IF sess.threw
          THEN /\ up
               /\ Apply(p, Stay(onThrow(pr, StorageError), history))
               /\ db' = db
          ELSE IF ~sess.found
          THEN /\ up
               /\ Apply(p, Stay([pr EXCEPT !.pc = "persist_ret"], history))
               /\ db' = db
          ELSE /\ db' = res.db
               /\ Apply(p, Stay(IF res.threw THEN onThrow(pr, StorageError)
                                ELSE [pr EXCEPT !.pc = "persist_ret"], history))
  /\ UNCHANGED <<stoppedAt, busCalls, storeOpen, clock, clientVars, sessionStore,
                 currentSessionId, turns>>

\* The caller of persistMessage goes on: handleTurn enters runLoop, runLoop handles
\* the tool calls of the result, or runLoop takes the next call or iteration.
PersistRet(p) ==
  /\ At(p, "persist_ret")
  /\ \E odd \in OddEvent(1) :
       LET pr == procs[p]
           r == IF pr.cont = "user" THEN iterate(pr, 0, history, odd)
                ELSE IF pr.cont = "text" THEN afterText(pr, history, odd)
                ELSE IF pr.k < Len(pr.calls)
                     THEN Stay([pr EXCEPT !.pc = "tool", !.k = @ + 1], history)
                     ELSE iterate(pr, pr.i + 1, history, odd)
       IN /\ odd => r.proc.pc = "catch"
          /\ Apply(p, r)
  /\ UNCHANGED <<stoppedAt, busCalls, storeVars, clientVars, sessionStore, currentSessionId, turns>>

\* runLoop after model.generate settled.
Generate(p) ==
  /\ At(p, "generate")
  /\ \E up \in StoreUp(1), odd \in OddEvent(1) :
       LET pr == [procs[p] EXCEPT !.seen = <<>>]
           result == generate(turns[pr.turn].script, pr.turn, pr.i)
           got == [pr EXCEPT !.text = result.text, !.calls = result.toolCalls, !.k = 0]
           next == persistMessage(got, currentSessionId,
                                  Persisted("assistant", result.text, Undefined), "text", up)
           r == IF result.threw THEN Stay(onThrow(pr, GenerateError), history)
                ELSE IF result.text # ""
                     THEN Stay(next, Append(history, ChatMessage("assistant", result.text,
                                                                 Undefined, Undefined, <<>>)))
                     ELSE afterText(got, history, odd)
       IN /\ (~result.threw /\ result.text # "" /\ next.pc = "persist_get") \/ up
          /\ odd => (r.proc.pc = "catch" /\ r.events # <<>>)
          /\ Apply(p, r)
  /\ UNCHANGED <<stoppedAt, busCalls, storeVars, clientVars, sessionStore, currentSessionId, turns>>

\* runLoop after executeTool settled for call k: push the tool message and persist it.
Tool(p) ==
  /\ At(p, "tool")
  /\ \E up \in StoreUp(1) :
       LET pr == procs[p]
           call == pr.calls[pr.k]
           output == executeTool(call.name)
           next == persistMessage(pr, currentSessionId,
                                  Persisted("tool", output.value, call.id), "tool", up)
       IN /\ (~output.threw /\ next.pc = "persist_get") \/ up
          /\ Apply(p,
               IF output.threw THEN Stay(onThrow(pr, "Error: " \o output.value), history)
               ELSE Stay(next, Append(history, ChatMessage("tool", output.value, call.id,
                                                           call.name, <<>>))))
  /\ UNCHANGED <<stoppedAt, busCalls, storeVars, clientVars, sessionStore, currentSessionId, turns>>

\* The catch of the subscribed handler: publish agent.error with String(err).
Catch(p) ==
  /\ At(p, "catch")
  /\ \E odd \in OddEvent(1) :
       LET pr == procs[p]
           ev == createEvent("agent.error", [message |-> Undefined, error |-> pr.err],
                             turns[pr.turn].traceCtx, FreshId(pr))
           res == publish(subscribers, ev, odd)
       IN /\ odd => res.threw
          /\ Apply(p, [proc |-> [pr EXCEPT !.pc = "done", !.sent = @ + 1,
                                           !.settled = IF res.threw THEN "rejected"
                                                       ELSE "fulfilled"],
                       history |-> history, events |-> <<ev>>,
                       invoked |-> res.invoked])
  /\ UNCHANGED <<stoppedAt, busCalls, storeVars, clientVars, sessionStore, currentSessionId, turns>>

Step(p) ==
  \/ HydrateGet(p) \/ HydrateRet(p) \/ PersistGet(p) \/ PersistRet(p)
  \/ Generate(p) \/ Tool(p) \/ Catch(p)

Next ==
  \/ Start
  \/ PublishTurn
  \/ \E p \in ProcIds : Step(p)

Spec == Init /\ [][Next]_vars

(***************************************************************************)
(* Session store claims                                                    *)
(***************************************************************************)

\* C3: recovery fidelity. After any sequence of update calls that each pass the
\* complete history so far, across close/re-open cycles, get(id).history is the
\* concatenation of the appended messages in call order, field for field, whatever
\* their timestamps.
C3_RecoveryFidelity ==
  (storeOpen /\ allComplete) =>
    \A id \in SessionIds :
      db.sessions[id].present => get(db, storeOpen, id).history = accepted[id]

\* C4: update appends exactly the suffix of history beyond the stored count: the
\* stored rows afterwards are the rows before followed by history[count+1 .. len],
\* so the count is max(previous count, history length).
C4_UpdateAppendsSuffix ==
  (lastOp.op = "update" /\ ~lastOp.threw) =>
    LET prev == Len(lastOp.before)
        h == lastOp.history
        now == EventsOf(db.events, lastOp.id)
    IN /\ Len(now) = Max(prev, Len(h))
       /\ \A i \in 1..prev : now[i] = lastOp.before[i]
       /\ \A i \in (prev + 1)..Len(now) : now[i] = MessageToRow(lastOp.id, h[i])

\* C4 witness: an update on a session that already stores messages appended more.
C4_Witness ==
  /\ lastOp.op = "update" /\ ~lastOp.threw
  /\ Len(lastOp.before) > 0
  /\ Len(lastOp.history) > Len(lastOp.before) + 1

(***************************************************************************)
(* Agent loop claims                                                       *)
(***************************************************************************)

\* The terminal events published on the trace of turn t, in publication order.
IsOnTrace(e, t) == e.traceCtx.traceId = turns[t].traceCtx.traceId
TurnEvents(t) ==
  LET OnTrace(e) == IsOnTrace(e, t) IN SelectSeq(published, OnTrace)

Delivered(t) == \E p \in 1..Len(procs) : procs[p].turn = t
Finished(t) == \A p \in 1..Len(procs) : procs[p].turn = t => procs[p].pc = "done"

\* C1: for every agent.turn event delivered to a started loop exactly one terminal
\* event is published: never two (nor one of each kind) at any moment, and exactly
\* one once the turn's handler has finished.
C1_ExactlyOneTerminal ==
  \A t \in 1..Len(turns) :
    Delivered(t) => /\ Len(TurnEvents(t)) <= 1
                    /\ Finished(t) => Len(TurnEvents(t)) = 1

\* C2: turn processing is serialized: while an earlier turn has not published its
\* terminal event, the handler of a later turn has not hydrated, appended its user
\* message or called the model; it can only stand before its first step.
C2_TurnsSerialized ==
  \A p, q \in 1..Len(procs) :
    (procs[p].turn < procs[q].turn /\ procs[p].sent = 0) => procs[q].pc = "hydrate_ret"

\* C5: bounded cycle: generate is called at most 10 times in a turn, and a turn
\* whose 10 rounds all returned a tool call ends with exactly the agent.error
\* "Max iterations reached" and no agent.complete.
C5_BoundedCycle ==
  \A p \in 1..Len(procs) :
    LET pr == procs[p]
    IN /\ pr.gens <= MAX_ITERATIONS
       /\ (pr.pc = "done" /\ pr.gens = MAX_ITERATIONS /\ pr.calls # <<>>) =>
            /\ Len(TurnEvents(pr.turn)) = 1
            /\ TurnEvents(pr.turn)[1].topic = "agent.error"
            /\ TurnEvents(pr.turn)[1].payload.error = MaxIterationsError

\* The positions in h of the tool-role message keyed by a call id.
ToolPositions(h, id) ==
  { j \in 1..Len(h) : h[j].role = "tool" /\ h[j].toolCallId = id }
InOrder(h, calls) ==
  /\ \A k \in 1..Len(calls) : ToolPositions(h, calls[k].id) # {}
  /\ \A k \in 1..(Len(calls) - 1) :
       \E a \in ToolPositions(h, calls[k].id), b \in ToolPositions(h, calls[k + 1].id) :
         a < b

\* C6: tool ordering: when the next generate call is made after a round with tool
\* calls c1..cn, the working history it is given holds the tool results of c1..cn
\* in that order, and so does the persisted history of the turn's session when the
\* turn persists.
C6_ToolOrdering ==
  \A p \in 1..Len(procs) :
    LET pr == procs[p]
        t == pr.turn
        sid == turns[t].payload.sessionId
        calls == generate(turns[t].script, t, pr.i - 1).toolCalls
    IN (pr.pc = "generate" /\ pr.i > 0) =>
         /\ InOrder(pr.seen, calls)
         /\ (sessionStore /\ sid # Undefined /\ db.sessions[sid].present) =>
               InOrder(get(db, TRUE, sid).history, calls)

\* C7: a storage failure is not fatal to the turn: no agent.error is published
\* because a session store call failed.
C7_StorageFailureNotFatal ==
  \A j \in 1..Len(published) :
    published[j].topic = "agent.error" => published[j].payload.error # StorageError

\* C8: when generate throws, the failure is caught at the turn-handling boundary:
\* the handler's promise does not reject with it, and once the handler has
\* finished an agent.error carrying the error's description has been published
\* on the turn's trace.
C8_GenerateFailureCaught ==
  \A p \in 1..Len(procs) :
    LET pr == procs[p]
    IN pr.err = GenerateError =>
         /\ pr.settled = "rejected" => pr.sent > 0
         /\ pr.pc = "done" =>
              \E j \in 1..Len(published) :
                /\ IsOnTrace(published[j], pr.turn)
                /\ published[j].topic = "agent.error"
                /\ published[j].payload.error = GenerateError

\* C8 witness: a turn whose generate threw has finished with its agent.error.
C8_Witness ==
  \E p \in 1..Len(procs) :
    /\ procs[p].err = GenerateError /\ procs[p].pc = "done"
    /\ \E j \in 1..Len(published) :
         IsOnTrace(published[j], procs[p].turn) /\ published[j].payload.error = GenerateError

\* Whether a tool call fails: the name is not registered, or execute throws.
Failing(name) == ~nativeToolsGet(name) \/ execute(name).threw

\* C9: a failing tool call never ends the turn: while the call the loop executed
\* last is a failing one and rounds remain, the turn is still in progress (it
\* persists the error message, goes on to the next call or the next round).
C9_FailingToolKeepsTurnGoing ==
  \A p \in 1..Len(procs) :
    LET pr == procs[p]
    IN (pr.k \in 1..Len(pr.calls) /\ Failing(pr.calls[pr.k].name)
        /\ pr.i + 1 < MAX_ITERATIONS) => pr.pc \notin {"catch", "done"}

\* C10: every terminal event carries the traceId of a turn event, that turn's
\* spanId as parentSpanId, and a spanId of its own.
C10_TraceDescends ==
  \A j \in 1..Len(published) :
    \E t \in 1..Len(turns) :
      /\ published[j].traceCtx.traceId = turns[t].traceCtx.traceId
      /\ published[j].traceCtx.parentSpanId = turns[t].traceCtx.spanId
      /\ published[j].traceCtx.spanId # turns[t].traceCtx.spanId

\* C10 witness: terminal events of the success path and of the caught-failure
\* path have been published.
C10_Witness ==
  /\ \E j \in 1..Len(published) : published[j].topic = "agent.complete"
  /\ \E j \in 1..Len(published) :
       published[j].topic = "agent.error" /\ published[j].payload.error = GenerateError

(***************************************************************************)
(* The bus and its clients: subscribe, unsubscribe, publish, request        *)
(***************************************************************************)
MaxSubs == 2      \* subscribe calls made by the clients
MaxCalls == 2     \* publish calls made by the clients
MaxRequests == 1  \* request calls made by the clients

\* The id of the next subscription (uuidv7 in the code: never used before).
NextSubId == Len(subscribers) + Cardinality(unsubscribed) + 1

\* subscribe(filter, handler): the subscription is added at the end of the Set.
subscribe(subs, filter, handler, id) ==
  Append(subs, [filter EXCEPT !.id = id, !.handler = handler])

\* Faulty variant: unsubscribe leaves the Set as it is.
unsubscribeNothing(subs, id) == subs

\* The unsubscribe closure of a subscription: Set.delete of that very object.
unsubscribe(subs, id) == SelectSeq(subs, LAMBDA s : s.id # id)

\* Whether the subscription with this id is in the Set.
Registered(subs, id) == \E i \in 1..Len(subs) : subs[i].id = id

\* Faulty variant: publish returns without awaiting the promises of its handlers.
fireAndForget(pending) == TRUE

\* Promise.allSettled(promises) has settled: no promise is pending any more.
allSettled(pending) == pending = {}

\* The first and the last position of a non-empty set of positions.
Lowest(S) == CHOOSE i \in S : \A j \in S : i <= j
Highest(S) == CHOOSE i \in S : \A j \in S : i >= j

\* What a handler does when it is invoked, within the loop of publish: a handler
\*   "observer"     returns,
\*   "throws"       throws synchronously,
\*   "rejects"      returns a promise that is already rejected,
\*   "async"        returns a promise that settles later,
\*   "unsubscribes" unsubscribes itself,
\*   "drops"        unsubscribes the last other subscription of the Set,
\*   "subscribes"   subscribes another observer with its own filter,
\*   "reply"        is the handler of request: it unsubscribes and resolves.
\* acc.subs is the Set during the iteration, acc.removed the subscriptions deleted
\* so far, acc.received the events the handlers were given, acc.replied the events
\* handed to a request's resolve.
handle(acc, s, event) ==
  LET others == {i \in 1..Len(acc.subs) : acc.subs[i].id # s.id}
      inv == [acc EXCEPT !.seen = @ \cup {s.id}, !.invoked = Append(@, s),
                         !.received = Append(@, event)]
  IN CASE s.handler = "async" -> [inv EXCEPT !.pending = @ \cup {s.id}]
       [] s.handler = "unsubscribes" ->
            [inv EXCEPT !.subs = unsubscribe(@, s.id), !.removed = @ \cup {s.id}]
       [] s.handler = "drops" /\ others # {} ->
            LET last == acc.subs[Highest(others)]
            IN [inv EXCEPT !.subs = unsubscribe(@, last.id), !.removed = @ \cup {last.id}]
       [] s.handler = "subscribes" ->
            [inv EXCEPT !.subs = subscribe(@, s, "observer",
                                           Len(acc.subs) + Cardinality(acc.removed) + 1)]
       [] s.handler = "reply" ->
            [inv EXCEPT !.subs = unsubscribe(@, s.id), !.removed = @ \cup {s.id},
                        !.replied = Append(@, [sub |-> s.id, event |-> event])]
       [] OTHER -> inv

\* The for-of loop of publish over the Set of subscribers. The iteration is live:
\* a subscription added during the loop is visited, one deleted before its turn is
\* not. A predicate that throws ends the loop, for matches is called outside the try.
RECURSIVE publishLoop(_, _)
publishLoop(acc, event) ==
  LET unseen == {i \in 1..Len(acc.subs) : acc.subs[i].id \notin acc.seen}
  IN IF unseen = {} THEN acc
     ELSE LET s == acc.subs[Lowest(unseen)]
              m == matches(event, s, FALSE)
          IN IF m = "throws" THEN [acc EXCEPT !.threw = TRUE]
             ELSE IF m = "false"
                  THEN publishLoop([acc EXCEPT !.seen = @ \cup {s.id}], event)
                  ELSE publishLoop(handle(acc, s, event), event)

\* The state of the loop before its first iteration.
LoopStart(subs, removed) ==
  [subs |-> subs, seen |-> {}, invoked |-> <<>>, received |-> <<>>, threw |-> FALSE,
   pending |-> {},
   removed |-> removed, replied |-> <<>>]

\* The record of a publish call: the event, the Set at its start, the subscriptions
\* unsubscribed before it, what the loop did, and the state of its promise; unsettled
\* are the subscriptions that, when the call started, had a handler pending from an
\* earlier call whose promise had settled.
PublishCall(event, subs, removed, run) ==
  [event |-> event, present |-> subs, gone |-> removed,
   unsettled |-> UNION {busCalls[m].pending :
                          m \in {k \in 1..Len(busCalls) : busCalls[k].state # "pending"}},
   invoked |-> run.invoked, received |-> run.received, threw |-> run.threw,
   pending |-> run.pending,
   left |-> run.subs,
   state |-> IF run.threw THEN "rejected"
             ELSE IF allSettled(run.pending) THEN "resolved" ELSE "pending"]

\* The events the clients publish, and their filters.
BusEvent(id, topic, source, target) ==
  [id |-> id, topic |-> topic, sourceAgentId |-> source, targetAgentId |-> target,
   traceContext |-> createTraceContext(FALSE, NULL, 10 * id)]
BusEvents(id) ==
  { BusEvent(id, "agent.complete", "agent-a", Undefined),
    BusEvent(id, "agent.complete", "agent-b", "agent-a"),
    BusEvent(id, "agent.error", Undefined, "agent-a") }
Filter(hasTopics, topics, source, target, predicate) ==
  [Subscription(0, hasTopics, topics, target, predicate, "observer")
     EXCEPT !.sourceAgentId = source]
CompleteOnly == Filter(TRUE, {"agent.complete"}, Undefined, Undefined, "none")
NoFilter == Filter(FALSE, {}, Undefined, Undefined, "none")
NoTopics == Filter(TRUE, {}, Undefined, Undefined, "none")
FromA == Filter(FALSE, {}, "agent-a", Undefined, "none")
ToA == Filter(FALSE, {}, Undefined, "agent-a", "none")
Rejecting == Filter(TRUE, {"agent.complete", "agent.error"}, Undefined, Undefined, "false")
Accepting == Filter(FALSE, {}, Undefined, Undefined, "true")
Throwing == Filter(FALSE, {}, Undefined, Undefined, "throws")

\* A client's subscription: a filter and what its handler does. The clients of one
\* run are of one kind of scenario: filters on topics, filters on agent ids and
\* predicates, handlers that fail or take time, handlers that change the Set.
Client(f, h) == [filter |-> f, handler |-> h]
BusScenarios ==
  { {Client(CompleteOnly, "observer"), Client(NoTopics, "observer"),
     Client(NoFilter, "observer"), Client(Throwing, "observer")},
    {Client(FromA, "observer"), Client(ToA, "observer"),
     Client(Rejecting, "observer"), Client(Accepting, "observer")},
    {Client(NoFilter, "throws"), Client(NoFilter, "rejects"), Client(NoFilter, "async"),
     Client(CompleteOnly, "observer"), Client(Throwing, "observer")},
    {Client(NoFilter, "unsubscribes"), Client(NoFilter, "drops"),
     Client(NoFilter, "subscribes"), Client(CompleteOnly, "observer"),
     Client(Throwing, "observer")} }
RequestScenarios ==
  { {Client(CompleteOnly, "observer"), Client(Throwing, "observer")} }
ClientOf(s) == Client([s EXCEPT !.id = 0, !.handler = "observer"], s.handler)

InitBus ==
  /\ db = EmptyDb
  /\ storeOpen = TRUE
  /\ clock = 0
  /\ accepted = [s \in SessionIds |-> <<>>]
  /\ allComplete = TRUE
  /\ lastOp = NoOp
  /\ subscribers = <<>>
  /\ sessionStore = FALSE
  /\ history = <<>>
  /\ currentSessionId = Undefined
  /\ procs = <<>>
  /\ turns = <<>>
  /\ published = <<>>
  /\ busCalls = <<>>
  /\ requests = <<>>
  /\ unsubscribed = {}
  /\ stoppedAt = -1

busRest == <<storeVars, clientVars, sessionStore, history, currentSessionId, procs,
             turns, published, stoppedAt>>

\* What the replies of a publish loop do to the requests: the handler of request
\* clears the timer and calls resolve, which settles a promise that is pending.
Replied(reqs, replied) ==
  [r \in 1..Len(reqs) |->
     LET mine == SelectSeq(replied, LAMBDA x : x.sub = reqs[r].sub)
     IN IF mine = <<>> THEN reqs[r]
        ELSE [reqs[r] EXCEPT !.timer = "cleared",
                             !.handled = @ + Len(mine),
                             !.outcome = IF @ = "pending" THEN "resolved" ELSE @,
                             !.reply = IF reqs[r].outcome = "pending"
                                       THEN mine[1].event.id ELSE @]]

\* A client subscribes, before the first event is published.
Subscribe(scenarios) ==
  /\ NextSubId <= MaxSubs
  /\ busCalls = <<>> /\ requests = <<>> /\ unsubscribed = {}
  /\ \E sc \in scenarios : \E k \in sc :
       /\ \A i \in 1..Len(subscribers) : ClientOf(subscribers[i]) \in sc
       /\ subscribers' = subscribe(subscribers, k.filter, k.handler, NextSubId)
  /\ UNCHANGED <<busCalls, requests, unsubscribed, busRest>>

\* A client calls unsubscribe() of a subscription it made, for the first time or again.
Unsubscribe ==
  /\ \E id \in 1..(NextSubId - 1) :
       /\ \A r \in 1..Len(requests) : requests[r].sub # id
       /\ unsubscribed \subseteq {id}
       /\ subscribers' = unsubscribe(subscribers, id)
       /\ unsubscribed' = unsubscribed \cup {id}
  /\ UNCHANGED <<busCalls, requests, busRest>>

\* A client calls publish(event): the loop runs to its end within the call.
Publish ==
  /\ Len(busCalls) < MaxCalls
  /\ \E event \in BusEvents(Len(busCalls) + 1) :
       LET run == publishLoop(LoopStart(subscribers, unsubscribed), event)
       IN /\ busCalls' = Append(busCalls,
                                PublishCall(event, subscribers, unsubscribed, run))
          /\ subscribers' = run.subs
          /\ unsubscribed' = run.removed
          /\ requests' = Replied(requests, run.replied)
  /\ UNCHANGED busRest

\* The promise of an asynchronous handler settles, fulfilled or rejected:
\* allSettled takes both alike, and publish returns once none is pending.
Settle ==
  /\ \E c \in 1..Len(busCalls) : \E id \in busCalls[c].pending :
       LET pending == busCalls[c].pending \ {id}
       IN busCalls' = [busCalls EXCEPT ![c].pending = pending,
                         ![c].state = IF @ = "pending" /\ allSettled(pending)
                                      THEN "resolved" ELSE @]
  /\ UNCHANGED <<subscribers, requests, unsubscribed, busRest>>

\* A client calls request(event, replyFilter, timeoutMs): the timer is set, the
\* reply handler subscribed, the event published; when publish rejects, the catch
\* callback clears the timer, unsubscribes and rejects.
Request ==
  /\ Len(requests) < MaxRequests
  /\ \E event \in BusEvents(Len(busCalls) + 1), replyFilter \in {CompleteOnly, NoFilter} :
       LET sub == NextSubId
           subs == subscribe(subscribers, replyFilter, "reply", sub)
           req == [event |-> event, filter |-> replyFilter, sub |-> sub,
                   timer |-> "armed", outcome |-> "pending", reply |-> 0,
                   handled |-> 0]
           run == publishLoop(LoopStart(subs, unsubscribed), event)
           reqs == Replied(Append(requests, req), run.replied)
           r == Len(reqs)
       IN /\ busCalls' = Append(busCalls, PublishCall(event, subs, unsubscribed, run))
          /\ IF run.threw
             THEN /\ subscribers' = unsubscribe(run.subs, sub)
                  /\ unsubscribed' = run.removed \cup {sub}
                  /\ requests' = [reqs EXCEPT ![r].timer = "cleared",
                                     ![r].outcome = IF @ = "pending" THEN "failed" ELSE @]
             ELSE /\ subscribers' = run.subs
                  /\ unsubscribed' = run.removed
                  /\ requests' = reqs
  /\ UNCHANGED busRest

\* Faulty variant: the timer callback rejects and leaves the subscription in the Set.
TimeoutKeepsSubscription ==
  /\ \E r \in 1..Len(requests) :
       /\ requests[r].timer = "armed"
       /\ requests' = [requests EXCEPT ![r].timer = "fired",
                          ![r].outcome = IF @ = "pending" THEN "timeout" ELSE @]
  /\ UNCHANGED <<subscribers, unsubscribed, busCalls, busRest>>

\* The timer of a request fires: it unsubscribes and calls reject.
Timeout ==
  /\ \E r \in 1..Len(requests) :
       /\ requests[r].timer = "armed"
       /\ requests' = [requests EXCEPT ![r].timer = "fired",
                          ![r].outcome = IF @ = "pending" THEN "timeout" ELSE @]
       /\ subscribers' = unsubscribe(subscribers, requests[r].sub)
       /\ unsubscribed' = unsubscribed \cup {requests[r].sub}
  /\ UNCHANGED <<busCalls, busRest>>

NextBus == Subscribe(BusScenarios) \/ Unsubscribe \/ Publish \/ Settle

SpecBus == InitBus /\ [][NextBus]_vars

NextRequest == Subscribe(RequestScenarios) \/ Publish \/ Request \/ Timeout

SpecRequest == InitBus /\ [][NextRequest]_vars

\* A timer that is set and not cleared fires once its delay has passed.
FairSpecRequest == SpecRequest /\ WF_vars(Timeout)

(***************************************************************************)
(* Claims about the bus                                                    *)
(***************************************************************************)
\* The ids of the subscriptions a publish call invoked, how often it invoked one,
\* and the subscriptions that were in the Set from its start to the end of its loop.
InvokedIds(c) == {c.invoked[i].id : i \in 1..Len(c.invoked)}
Times(c, id) == Cardinality({i \in 1..Len(c.invoked) : c.invoked[i].id = id})
Whole(c) == {c.present[i] : i \in {j \in 1..Len(c.present) :
                                     Registered(c.left, c.present[j].id)}}
Failed(c) == \E i \in 1..Len(c.invoked) : c.invoked[i].handler \in {"throws", "rejects"}

\* C11: when a handler invoked by publish throws or returns a rejected promise,
\* every other subscription that matches the event and stays registered still
\* receives it, and the promise of publish does not reject.
C11_HandlerFailuresIsolated ==
  \A n \in 1..Len(busCalls) :
    LET c == busCalls[n]
    IN Failed(c) =>
         /\ c.state # "rejected"
         /\ \A s \in Whole(c) :
              matches(c.event, s, FALSE) = "true" => s.id \in InvokedIds(c)

\* C12: the promise of publish resolves only after every asynchronous handler
\* invoked for the event has settled: a resolved call has no pending handler.
C12_ResolvesAfterHandlersSettle ==
  \A n \in 1..Len(busCalls) :
    busCalls[n].state = "resolved" => busCalls[n].pending = {}

\* A call that invoked an asynchronous handler has resolved.
C12_Witness ==
  \E n \in 1..Len(busCalls) :
    /\ busCalls[n].state = "resolved"
    /\ \E i \in 1..Len(busCalls[n].invoked) : busCalls[n].invoked[i].handler = "async"

\* The part of C12 about the loop, over the loop's specification: the promise of a
\* turn handler settles only after the handler has published a terminal event, so a
\* publish call that awaits the handler resolves after that event was published.
C12_LoopPublishesBeforeSettling ==
  \A p \in 1..Len(procs) : procs[p].settled # "pending" => procs[p].sent > 0

\* C13: a subscription whose filter is {topics: ["agent.complete"]} and nothing else
\* receives every agent.complete event published while it is registered, whatever
\* the event's source and target, as the very event that was published, and it
\* receives no event of another topic.
C13_CompleteOnlySubscription ==
  \A n \in 1..Len(busCalls) :
    LET c == busCalls[n]
        mine(s) == SelectSeq(c.invoked, LAMBDA x : x.id = s.id)
    IN /\ \A s \in Whole(c) :
            (ClientOf(s).filter = CompleteOnly /\ c.event.topic = "agent.complete")
              => mine(s) # <<>>
       /\ \A i \in 1..Len(c.present) :
            (ClientOf(c.present[i]).filter = CompleteOnly
               /\ c.event.topic # "agent.complete")
              => mine(c.present[i]) = <<>>
       /\ \A i \in 1..Len(c.received) : c.received[i] = c.event

\* C14: a filter whose topic list is absent or is the empty list (and that has no
\* other field) matches the events of every topic: matches returns true for every
\* event published while such a subscription is registered.
C14_EmptyTopicsMatchAll ==
  \A n \in 1..Len(busCalls) : \A i \in 1..Len(busCalls[n].present) :
    LET s == busCalls[n].present[i]
    IN ((~s.hasTopics \/ s.topics = {}) /\ s.sourceAgentId = Undefined
          /\ s.targetAgentId = Undefined /\ s.predicate = "none")
         => matches(busCalls[n].event, s, FALSE) = "true"

\* The part of C14 about an absent topic list, which the code does satisfy.
C14_AbsentTopicsMatchAll ==
  \A n \in 1..Len(busCalls) : \A i \in 1..Len(busCalls[n].present) :
    LET s == busCalls[n].present[i]
    IN (~s.hasTopics /\ s.sourceAgentId = Undefined
          /\ s.targetAgentId = Undefined /\ s.predicate = "none")
         => matches(busCalls[n].event, s, FALSE) = "true"

\* What each field of a filter accepts: a topic list the topics it holds, an agent
\* id the events that carry that very id, a predicate the events it returns true
\* for; an absent field accepts every event.
AcceptsTopic(e, f) == ~f.hasTopics \/ e.topic \in f.topics
AcceptsSource(e, f) ==
  f.sourceAgentId = Undefined
    \/ (e.sourceAgentId # Undefined /\ e.sourceAgentId = f.sourceAgentId)
AcceptsTarget(e, f) ==
  f.targetAgentId = Undefined
    \/ (e.targetAgentId # Undefined /\ e.targetAgentId = f.targetAgentId)
AcceptsPredicate(e, f) == f.predicate \in {"none", "true"}

C16_UnsubscribeStopsDelivery ==
  /\ [](\A n \in 1..Len(busCalls) : InvokedIds(busCalls[n]) \cap busCalls[n].gone = {})
  /\ [][Unsubscribe =>
          \E id \in 1..(NextSubId - 1) :
            /\ unsubscribed' = unsubscribed \cup {id}
            /\ subscribers' = SelectSeq(subscribers, LAMBDA s : s.id # id)
            /\ id \in unsubscribed => subscribers' = subscribers]_vars

\* A subscription that received an event was unsubscribed, and a later call with
\* an event of the same topic, source and target did not invoke it, while another
\* subscription stayed registered.
C16_Witness ==
  \E m, n \in 1..Len(busCalls) :
    /\ m < n
    /\ busCalls[n].event.topic = busCalls[m].event.topic
    /\ busCalls[n].event.sourceAgentId = busCalls[m].event.sourceAgentId
    /\ busCalls[n].event.targetAgentId = busCalls[m].event.targetAgentId
    /\ \E id \in InvokedIds(busCalls[m]) \cap busCalls[n].gone :
         id \notin InvokedIds(busCalls[n])
    /\ busCalls[n].invoked # <<>>

\* C17: within one publish call no handler is invoked more than once, and every
\* subscription that matches the event and is registered from the start of the call
\* to the end of its loop is invoked exactly once, also when handlers subscribe or
\* unsubscribe during the iteration.
C17_EachMatchingSubscriberOnce ==
  \A n \in 1..Len(busCalls) :
    LET c == busCalls[n]
    IN /\ \A id \in InvokedIds(c) : Times(c, id) = 1
       /\ \A s \in Whole(c) :
            matches(c.event, s, FALSE) = "true" => Times(c, s.id) = 1

\* C17 for the calls whose loop ran to its end: what the code does satisfy.
C17_OnceWhenLoopEnds ==
  \A n \in 1..Len(busCalls) :
    LET c == busCalls[n]
    IN /\ \A id \in InvokedIds(c) : Times(c, id) = 1
       /\ ~c.threw => \A s \in Whole(c) :
                        matches(c.event, s, FALSE) = "true" => Times(c, s.id) = 1

\* C18: a request that resolved did so with the first event matching replyFilter
\* published after the request event (events are numbered in the order of their
\* publish calls), never with the request event itself.
C18_ResolvesWithLaterEvent ==
  \A r \in 1..Len(requests) :
    LET q == requests[r]
    IN q.outcome = "resolved" =>
         /\ q.reply # q.event.id
         /\ q.reply > q.event.id
         /\ matches(busCalls[q.reply].event, q.filter, FALSE) = "true"
         /\ \A m \in (q.event.id + 1)..(q.reply - 1) :
              matches(busCalls[m].event, q.filter, FALSE) # "true"

\* C18 for the requests whose event does not match replyFilter, when no subscription
\* has a throwing predicate: what the code does satisfy.
C18_WhenRequestEventDoesNotMatch ==
  \A r \in 1..Len(requests) :
    LET q == requests[r]
    IN (q.outcome = "resolved" /\ matches(q.event, q.filter, FALSE) # "true"
          /\ \A n \in 1..Len(busCalls) : ~busCalls[n].threw) =>
         /\ q.reply > q.event.id
         /\ matches(busCalls[q.reply].event, q.filter, FALSE) = "true"
         /\ \A m \in (q.event.id + 1)..(q.reply - 1) :
              matches(busCalls[m].event, q.filter, FALSE) # "true"

\* C19 as stated: every request settles; one that settled without an event handed
\* to its reply handler was rejected with the timeout error, and its subscription is
\* out of the Set; and a request rejected by its timer stays so and consumes no event.
C19_SettlesByTimeout ==
  /\ \A r \in 1..MaxRequests :
       (Len(requests) >= r) ~> (Len(requests) >= r /\ requests[r].outcome # "pending")
  /\ [](\A r \in 1..Len(requests) :
          (requests[r].outcome # "pending" /\ requests[r].handled = 0) =>
            /\ requests[r].outcome = "timeout"
            /\ ~Registered(subscribers, requests[r].sub))
  /\ [][\A r \in 1..Len(requests) :
          requests[r].outcome = "timeout" =>
            requests'[r].outcome = "timeout" /\ requests'[r].handled = 0]_vars

\* C19 with the failure of publish taken in: every request settles; one that
\* settled without an event handed to its reply handler was rejected with the
\* timeout error when the publish of its
\* event succeeded, and with the failure of that publish when it failed; either way
\* its subscription is out of the Set; and a request rejected by its timer stays so
\* and consumes no event.
C19_SettlesByTimeoutOrFailure ==
  /\ \A r \in 1..MaxRequests :
       (Len(requests) >= r) ~> (Len(requests) >= r /\ requests[r].outcome # "pending")
  /\ [](\A r \in 1..Len(requests) :
          (requests[r].outcome # "pending" /\ requests[r].handled = 0) =>
            /\ requests[r].outcome =
                 IF busCalls[requests[r].event.id].threw THEN "failed" ELSE "timeout"
            /\ ~Registered(subscribers, requests[r].sub))
  /\ [][\A r \in 1..Len(requests) :
          requests[r].outcome = "timeout" =>
            requests'[r].outcome = "timeout" /\ requests'[r].handled = 0]_vars

\* A request was rejected by its timer, and an event matching its reply filter was
\* published afterwards and delivered to the other subscribers only.
C19_Witness ==
  \E r \in 1..Len(requests) : \E n \in 1..Len(busCalls) :
    /\ requests[r].outcome = "timeout"
    /\ requests[r].handled = 0
    /\ n > requests[r].event.id
    /\ ~busCalls[n].threw
    /\ matches(busCalls[n].event, requests[r].filter, FALSE) = "true"

\* C20: the reply handler of a request is invoked for at most one event, and once
\* the request has settled, by a reply, by its timer or by the failure of publish,
\* its subscription is not in the Set and its timer is not armed.
C20_OneReplyNoLeak ==
  \A r \in 1..Len(requests) :
    /\ requests[r].handled <= 1
    /\ requests[r].outcome # "pending" =>
         /\ ~Registered(subscribers, requests[r].sub)
         /\ requests[r].timer # "armed"

\* A request resolved with a reply, and a later event matching its reply filter was
\* published without reaching its handler.
C20_Witness ==
  \E r \in 1..Len(requests) : \E n \in 1..Len(busCalls) :
    /\ requests[r].outcome = "resolved"
    /\ requests[r].handled = 1
    /\ n > requests[r].reply
    /\ ~busCalls[n].threw
    /\ matches(busCalls[n].event, requests[r].filter, FALSE) = "true"

\* C21: when a publish call is made after an earlier call's promise has settled (its
\* publisher awaited it), no subscription it invokes has its handler for the earlier
\* event still unsettled.
C21_PerPublisherOrdering ==
  \A n \in 1..Len(busCalls) : InvokedIds(busCalls[n]) \cap busCalls[n].unsettled = {}

(***************************************************************************)
(* The life of a loop: started, started again, the gateway stopped          *)
(***************************************************************************)
\* The agents turn events are addressed to: this loop's, another one, none.
OtherAgentId == "agent-b"
Targets == {AgentId, OtherAgentId, Undefined}

\* A loop without session store on a bus with one caller waiting for terminal events.
InitLife ==
  /\ db = LoopDb
  /\ storeOpen = TRUE
  /\ clock = 0
  /\ accepted = [s \in SessionIds |-> <<>>]
  /\ allComplete = TRUE
  /\ lastOp = NoOp
  /\ subscribers = <<Observer>>
  /\ sessionStore = FALSE
  /\ history = <<>>
  /\ currentSessionId = Undefined
  /\ procs = <<>>
  /\ turns = <<>>
  /\ published = <<>>
  /\ busCalls = <<>>
  /\ requests = <<>>
  /\ unsubscribed = {}
  /\ stoppedAt = -1

\* No handler of the loop is under way.
Idle == \A p \in 1..Len(procs) : procs[p].pc = "done"

\* start() called between turns, once or again.
StartIdle == Idle /\ StartUpTo(MaxStarts + 1)

\* CoreGateway.stop(), called between turns: the shutdown the code has: it writes a log line. AgentLoop
\* has no stop of its own, and start() drops the Subscription it was given.
Stop ==
  /\ stoppedAt = -1
  /\ Idle
  /\ stoppedAt' = Len(turns)
  /\ UNCHANGED <<storeVars, clientVars, busVars, subscribers, sessionStore, history,
                 currentSessionId, procs, turns, published>>

\* The steps of a handler of a loop that has no session store: persistMessage
\* returns at once, so no call of the store is ever awaited.
LifeStep(p) == PersistRet(p) \/ Generate(p) \/ Tool(p) \/ Catch(p)

NextLife ==
  \/ StartIdle
  \/ Stop
  \/ PublishTurnTo(Targets, ShortScripts)
  \/ \E p \in ProcIds : LifeStep(p)

SpecLife == InitLife /\ [][NextLife]_vars

(***************************************************************************)
(* Claims about the session store, continued                               *)
(***************************************************************************)
\* What get(id) returns as history on an open connection, and the prefix order.
History(d, id) == get(d, TRUE, id).history
IsPrefix(s, t) == Len(s) <= Len(t) /\ \A i \in 1..Len(s) : s[i] = t[i]

\* C22: the stored history is append-only: across every store call that leaves the
\* session in place, the history get returned before is a prefix of the history
\* get returns afterwards.
C22_AppendOnly ==
  [][\A id \in SessionIds :
       (db.sessions[id].present /\ db'.sessions[id].present) =>
         IsPrefix(History(db, id), History(db', id))]_vars

(***************************************************************************)
(* Claims about the life of a loop                                         *)
(***************************************************************************)
\* The turn events addressed to this loop's agent.
ForThisAgent(t) == turns[t].targetAgentId = AgentId

\* C23: once the loop has been stopped it holds no subscription, and no handler of it
\* is invoked for a turn event published afterwards (so such an event changes no
\* history, reaches no adapter and gets no terminal event).
C23_StoppedLoopIsUnsubscribed ==
  stoppedAt >= 0 =>
    /\ LoopSubs = {}
    /\ \A p \in 1..Len(procs) : procs[p].turn <= stoppedAt

\* The second half of C23 alone, which the code violates as well.
C23_NoTurnAfterStop ==
  stoppedAt >= 0 => \A p \in 1..Len(procs) : procs[p].turn <= stoppedAt

\* The system messages of a working history, and the handler invocations of a turn.
SystemMessages(h) == {i \in 1..Len(h) : h[i].role = "system"}
Handlers(t) == {p \in 1..Len(procs) : procs[p].turn = t}

\* C24: before start() the loop holds no subscription and turn events have no effect
\* on it; once start() has been called, however often, it holds exactly one
\* agent.turn subscription, its working history begins with the system prompt and
\* holds no other system message, and each turn event is handled at most once.
C24_OneSubscriptionAfterStart ==
  /\ LoopSubs = {} => (history = <<>> /\ procs = <<>> /\ published = <<>>)
  /\ LoopSubs # {} =>
       /\ Cardinality(LoopSubs) = 1
       /\ history[1] = SystemPrompt
       /\ SystemMessages(history) = {1}
  /\ \A t \in 1..Len(turns) : Cardinality(Handlers(t)) <= 1

\* C25: a turn event addressed to another agent, or to none, is not processed by
\* this loop: none of its handlers is invoked for it, its message does not enter the
\* working history and no terminal event is published on its trace.
C25_OtherAgentsTurnsIgnored ==
  \A t \in 1..Len(turns) :
    ~ForThisAgent(t) =>
      /\ Handlers(t) = {}
      /\ \A i \in 1..Len(history) : history[i].content # turns[t].payload.message
      /\ TurnEvents(t) = <<>>

\* The started loop handled a turn of its own agent, and a later turn event for
\* another agent or for none went by.
C25_Witness ==
  \E t1, t2 \in 1..Len(turns) :
    /\ t1 < t2
    /\ ForThisAgent(t1) /\ Handlers(t1) # {}
    /\ ~ForThisAgent(t2) /\ Handlers(t2) = {}

(***************************************************************************)
(* A client of the store: create / update / delete                         *)
(***************************************************************************)
MaxSessions == 3

\* uuidv7(): a new id at each call, named here in order of issue.
SessionName(k) == "s" \o ToString(k)
StoreIds == { SessionName(k) : k \in 1..MaxSessions }

\* The ids create has returned so far (the clock counts the create calls).
Issued == { SessionName(k) : k \in 1..clock }

NoSessions == [sessions |-> [s \in StoreIds |-> NoRow], events |-> <<>>]

\* What a caller appends in one update to a history of n messages: one or two
\* messages, the last of which may lack its content.
Sound(k) == [role |-> IF k % 2 = 1 THEN "user" ELSE "tool", content |-> "m" \o ToString(k),
             timestamp |-> 0, toolCallId |-> IF k % 2 = 1 THEN Undefined ELSE "call_1"]
Broken == [role |-> "assistant", content |-> NULL, timestamp |-> 0, toolCallId |-> Undefined]
Suffixes(n) ==
  { <<Sound(n + 1)>>, <<Sound(n + 1), Sound(n + 2)>>, <<Sound(n + 1), Broken>> }

NoCall == [op |-> "none", id |-> SessionName(1), threw |-> FALSE, parent |-> Undefined,
           depth |-> 0, history |-> <<>>]

InitSessions ==
  /\ db = NoSessions
  /\ storeOpen = TRUE
  /\ clock = 0
  /\ accepted = [s \in SessionIds |-> <<>>]
  /\ allComplete = TRUE
  /\ lastOp = NoCall
  /\ subscribers = <<>>
  /\ sessionStore = TRUE
  /\ history = <<>>
  /\ currentSessionId = Undefined
  /\ procs = <<>>
  /\ turns = <<>>
  /\ published = <<>>
  /\ busCalls = <<>>
  /\ requests = <<>>
  /\ unsubscribed = {}
  /\ stoppedAt = -1

\* create(agentId, parentSessionId?), as a root or under the session created last
\* (which may be deleted by now): lastOp keeps the session object it returns.
CreateSession ==
  /\ clock < MaxSessions
  /\ \E parent \in (StoreIds \cap {SessionName(clock)}) \cup {Undefined} :
       LET id == SessionName(clock + 1)
           d == create(db, id, parent, clock)
       IN /\ parent # id
          /\ db' = d
          /\ lastOp' = [NoCall EXCEPT !.op = "create", !.id = id, !.parent = parent,
                                      !.depth = d.sessions[id].depth]
  /\ clock' = clock + 1
  /\ UNCHANGED <<storeOpen, accepted, allComplete, loopVars>>

\* update(id, {history}) of a stored session or of a deleted one: the caller passes
\* what get returns plus its new messages.
UpdateSession ==
  /\ Len(db.events) < MaxEvents
  /\ \E id \in Issued :
       LET seen == History(db, id)
       IN \E new \in Suffixes(Len(seen)) :
       LET full == seen \o new
           res == update(db, storeOpen, id, full, clock)
       IN /\ Len(res.db.events) <= MaxEvents
          /\ db' = res.db
          /\ lastOp' = [NoCall EXCEPT !.op = "update", !.id = id, !.threw = res.threw,
                                      !.history = full]
  /\ UNCHANGED <<storeOpen, clock, accepted, allComplete, loopVars>>

\* delete(id), of a stored session or of one deleted before.
DeleteSession ==
  /\ \E id \in Issued :
       /\ db' = delete(db, id)
       /\ lastOp' = [NoCall EXCEPT !.op = "delete", !.id = id]
  /\ UNCHANGED <<storeOpen, clock, accepted, allComplete, loopVars>>

NextSessions == CreateSession \/ UpdateSession \/ DeleteSession

SpecSessions == InitSessions /\ [][NextSessions]_vars

(***************************************************************************)
(* Claims about create, update and delete                                  *)
(***************************************************************************)

\* C26: create returns a session with an id no stored session has, an empty history,
\* depth 0 without a parent and the parent's depth + 1 with a stored parent; get of
\* that id right after create finds the session with an empty history; get of an id
\* create never returned finds nothing.
C26_CreateReturnsFreshSession ==
  [][/\ lastOp'.op = "create" =>
          /\ ~db.sessions[lastOp'.id].present
          /\ lastOp'.id \notin Issued
          /\ lastOp'.history = <<>>
          /\ lastOp'.parent = Undefined => lastOp'.depth = 0
          /\ (lastOp'.parent # Undefined /\ db.sessions[lastOp'.parent].present) =>
               lastOp'.depth = db.sessions[lastOp'.parent].depth + 1
          /\ get(db', storeOpen', lastOp'.id).found
          /\ get(db', storeOpen', lastOp'.id).history = lastOp'.history
          /\ db'.sessions[lastOp'.id].depth = lastOp'.depth
     /\ \A id \in StoreIds \ Issued' : ~get(db', storeOpen', id).found]_vars

\* A session was created under a parent that itself has a parent, while the store
\* holds messages of an earlier session.
C26_Witness ==
  /\ lastOp.op = "create"
  /\ lastOp.depth = 2
  /\ db.events # <<>>

\* What the store holds about one session: its row and its events, which are what
\* get(id) is computed from.
Stored(d, id) == [row |-> d.sessions[id], events |-> EventsOf(d.events, id)]

\* C27: update(id) and delete(id) leave every other session as it was; after
\* delete(id), get(id) finds nothing and none of its events remain; after update(id)
\* the stored events of id are those from before, followed by all the new messages
\* or by none of them.
C27_UpdateDeleteFrame ==
  [][LET id == lastOp'.id
         before == EventsOf(db.events, id)
         after == EventsOf(db'.events, id)
         suffix == MapSeq(Slice(lastOp'.history, Len(before)),
                          LAMBDA m : MessageToRow(id, m))
     IN /\ lastOp'.op \in {"update", "delete"} =>
             \A other \in StoreIds \ {id} : Stored(db', other) = Stored(db, other)
        /\ lastOp'.op = "delete" =>
             /\ ~get(db', storeOpen', id).found
             /\ after = <<>>
        /\ lastOp'.op = "update" =>
             \/ after = before
             \/ after = before \o suffix]_vars

\* An update of two messages was refused at the second one, on a session that holds
\* a message already.
C27_WitnessUpdate ==
  /\ lastOp.op = "update" /\ lastOp.threw
  /\ db.sessions[lastOp.id].present
  /\ Len(lastOp.history) = Len(EventsOf(db.events, lastOp.id)) + 2
  /\ EventsOf(db.events, lastOp.id) # <<>>

\* A session with messages was deleted while another session holds messages.
C27_Witness ==
  /\ lastOp.op = "delete"
  /\ lastOp.id \in Issued
  /\ ~db.sessions[lastOp.id].present
  /\ \E other \in StoreIds \ {lastOp.id} : EventsOf(db.events, other) # <<>>

(***************************************************************************)
(* Claims about hydration and persistence                                  *)
(***************************************************************************)
SessionOf(t) == turns[t].payload.sessionId
UserMessage(t) == ChatMessage("user", turns[t].payload.message, Undefined, Undefined, <<>>)

\* [systemPrompt, ...stored messages of session id in database d]
Hydrated(d, id) == <<SystemPrompt>> \o MapSeq(History(d, id), StoredToChat)

\* Turn t is the first one of this process that carries its session id.
FirstOn(t) == \A u \in 1..(t - 1) : SessionOf(u) # SessionOf(t)

\* C28: when hydrateFromSession returns after its read of session S, the working
\* history is [systemPrompt, ...stored messages of S] if S is stored with a non-empty
\* history, and is left as it was otherwise; a turn on the session already hydrated
\* leaves it as it was; and the first generate call of the first turn on a stored
\* session S is given the system prompt, the messages persisted for S before the
\* restart and the turn's user message.
C28_HydrationRule ==
  [][\A p \in ProcIds :
       /\ (At(p, "hydrate_get") /\ procs'[p].pc = "hydrate_ret") =>
            LET S == SessionOf(procs[p].turn)
                stored == get(db, storeOpen, S)
            IN history' = IF stored.found /\ stored.history # <<>>
                          THEN Hydrated(db, S)
                          ELSE history
       /\ (p = Len(procs) + 1 /\ Len(procs') >= p /\ procs'[p].pc = "hydrate_ret") =>
            history' = history
       /\ (p \in 1..Len(procs) /\ procs[p].pc # "generate" /\ procs'[p].pc = "generate"
           /\ procs'[p].gens = 1 /\ sessionStore
           /\ SessionOf(procs[p].turn) # Undefined
           /\ LoopDb.sessions[SessionOf(procs[p].turn)].present
           /\ FirstOn(procs[p].turn)) =>
            procs'[p].seen = Append(Hydrated(LoopDb, SessionOf(procs[p].turn)),
                                    UserMessage(procs[p].turn))]_vars

\* The working history as persistMessage is given it: without the system prompt and
\* the tool-call placeholders, each message as role, content and toolCallId.
IsPlaceholder(m) == m.role = "assistant" /\ m.content = "" /\ m.toolCalls # <<>>

RECURSIVE Persistable(_)
Persistable(h) ==
  IF h = <<>> THEN <<>>
  ELSE IF Head(h).role = "system" \/ IsPlaceholder(Head(h)) THEN Persistable(Tail(h))
       ELSE <<Persisted(Head(h).role, Head(h).content, Head(h).toolCallId)>>
              \o Persistable(Tail(h))

\* The stored history of a session, each message as role, content and toolCallId.
StoredMessages(d, id) ==
  MapSeq(History(d, id), LAMBDA m : Persisted(m.role, m.content, m.toolCallId))

Holds(d, id, msg) ==
  \E i \in 1..Len(StoredMessages(d, id)) : StoredMessages(d, id)[i] = msg

\* No store call of the loop has failed.
StorageAvailable ==
  \A q \in 1..Len(procs) : procs[q].err # StorageError /\ ~procs[q].sess.threw

\* Handler invocation p works on a turn that carries the id of a stored session.
OnStoredSession(p) ==
  /\ sessionStore
  /\ SessionOf(procs[p].turn) # Undefined
  /\ db.sessions[SessionOf(procs[p].turn)].present

\* The ids of the tool calls of the rounds before round i of turn t.
EarlierCalls(t, i) ==
  { ToolCalls(t, j, turns[t].script.calls)[k].id :
      j \in 0..(i - 1), k \in 1..Len(turns[t].script.calls) }

\* C29: in a turn on a stored session, with storage available: while a generate call
\* is in flight the turn's user message and the results of all earlier tool calls
\* are stored; while a tool runs or once the terminal event is out, the text of the
\* last result is stored when it is not empty; and while the turn is under way the
\* stored history is the persistable working history, short of at most the one
\* message being persisted.
C29_PersistBeforeNextStep ==
  StorageAvailable =>
    \A p \in 1..Len(procs) :
      OnStoredSession(p) =>
        LET pr == procs[p]
            t == pr.turn
            S == SessionOf(t)
            stored == StoredMessages(db, S)
            working == Persistable(history)
        IN /\ pr.pc = "generate" =>
                /\ Holds(db, S, Persisted("user", turns[t].payload.message, Undefined))
                /\ \A id \in EarlierCalls(t, pr.i) :
                     \E i \in 1..Len(stored) : stored[i].toolCallId = id
           /\ (pr.text # "" /\ (pr.pc = "tool" \/ (pr.pc = "done" /\ pr.sent > 0))) =>
                Holds(db, S, Persisted("assistant", pr.text, Undefined))
           /\ (currentSessionId = S /\ pr.pc \in {"persist_get", "persist_ret",
                                                  "generate", "tool"}) =>
                /\ IsPrefix(stored, working)
                /\ Len(working) - Len(stored) <= IF pr.pc = "persist_get" THEN 1 ELSE 0

(***************************************************************************)
(* The loop taking one turn at a time on a store with two sessions         *)
(***************************************************************************)

\* Session s1 holds one earlier message; session s2 was created and holds none.
SwitchDb == create(LoopDb, "s2", Undefined, 0)

InitSwitch ==
  /\ db = SwitchDb
  /\ storeOpen = TRUE
  /\ clock = 0
  /\ accepted = [s \in SessionIds |-> <<>>]
  /\ allComplete = TRUE
  /\ lastOp = NoOp
  /\ subscribers = <<Observer>>
  /\ sessionStore = TRUE
  /\ history = <<>>
  /\ currentSessionId = Undefined
  /\ procs = <<>>
  /\ turns = <<>>
  /\ published = <<>>
  /\ busCalls = <<>>
  /\ requests = <<>>
  /\ unsubscribed = {}
  /\ stoppedAt = -1

\* The caller publishes the next turn once the terminal event of the last one is out.
TurnWhenIdle == Idle /\ PublishTurnTo({AgentId}, ShortScripts)

NextSwitch == Start \/ TurnWhenIdle \/ \E p \in ProcIds : Step(p)

SpecSwitch == InitSwitch /\ [][NextSwitch]_vars

\* C30: between turns, when no store call has failed and the session the loop is
\* hydrated on is stored, the stored history of that session is the working history
\* without the system prompt and the tool-call placeholders, message for message on
\* role, content and toolCallId.
C30_WorkingMatchesStored ==
  (Idle /\ sessionStore /\ StorageAvailable /\ currentSessionId # Undefined
     /\ db.sessions[currentSessionId].present) =>
    StoredMessages(db, currentSessionId) = Persistable(history)

(***************************************************************************)
(* Claims about the completion step and ephemeral mode                     *)
(***************************************************************************)

\* The result of the generate call handler invocation pr made last.
LastResult(pr) == generate(turns[pr.turn].script, pr.turn, pr.i)

\* The last generate call of pr has returned a result without tool calls.
Completing(pr) ==
  /\ pr.gens = pr.i + 1 /\ pr.pc # "generate"
  /\ ~LastResult(pr).threw /\ LastResult(pr).toolCalls = <<>>

CompleteEvents(t) ==
  LET IsComplete(e) == e.topic = "agent.complete" IN SelectSeq(TurnEvents(t), IsComplete)

\* The text of the result that completes the turn of p is in the working history
\* and in the store.
TextKept(p) ==
  LET pr == procs[p]
      said == Persisted("assistant", LastResult(pr).text, Undefined)
      working == Persistable(history)
      stored == StoredMessages(db, SessionOf(pr.turn))
  IN /\ said \in { working[i] : i \in 1..Len(working) }
     /\ OnStoredSession(p) => said \in { stored[i] : i \in 1..Len(stored) }

\* C31: every round before the one a turn is in returned tool calls (after a result
\* without tool calls no further generate call is made), and after such a result no
\* tool is executed; when the handler has finished, agent.complete with the result's
\* text as message has been published; when persistMessage has returned for a
\* non-empty text and agent.complete is about to be published, the text is an
\* assistant message of the working history and is stored in the turn's session; and
\* no assistant message with an empty text and no tool calls is ever appended.
C31_CompletionStep ==
  /\ \A i \in 1..Len(history) :
       history[i].role = "assistant" /\ history[i].content = "" =>
         history[i].toolCalls # <<>>
  /\ \A p \in 1..Len(procs) :
       LET pr == procs[p]
           t == pr.turn
       IN /\ \A j \in 0..(pr.i - 1) :
               j < pr.gens => generate(turns[t].script, t, j).toolCalls # <<>>
          /\ Completing(pr) =>
               /\ pr.pc # "tool"
               /\ pr.pc = "done" =>
                    /\ Len(CompleteEvents(t)) = 1
                    /\ CompleteEvents(t)[1].payload.message = LastResult(pr).text
               /\ (pr.pc = "persist_ret" /\ pr.cont = "text") => TextKept(p)

\* The terminal event the adapter script of turn t leads to when nothing but the
\* adapter decides: the max-iterations error, the error of a throwing generate, or
\* agent.complete with the final text.
ExpectedTerminal(t) ==
  LET s == turns[t].script
      last == generate(s, t, s.toolRounds)
  IN IF s.toolRounds >= MAX_ITERATIONS
     THEN [topic |-> "agent.error", message |-> Undefined, error |-> MaxIterationsError]
     ELSE IF last.threw
          THEN [topic |-> "agent.error", message |-> Undefined, error |-> GenerateError]
          ELSE [topic |-> "agent.complete", message |-> last.text, error |-> Undefined]

\* The loop has no session store, or no turn so far carried the id of a stored
\* session: no session id is hydrated, or the hydrated one is not in the store.
Ephemeral ==
  \/ ~sessionStore
  \/ \A t \in 1..Len(turns) :
       SessionOf(t) = Undefined \/ ~db.sessions[SessionOf(t)].present

\* C32: in ephemeral mode persisting is a silent no-op: the store is never written,
\* no store error ends a turn, and every finished turn has published the terminal
\* event its adapter script leads to.
C32_EphemeralMode ==
  Ephemeral =>
    /\ db = LoopDb
    /\ \A p \in 1..Len(procs) :
         LET pr == procs[p]
             t == pr.turn
         IN /\ pr.err # StorageError
            /\ pr.pc = "done" =>
                 /\ TurnEvents(t) # <<>>
                 /\ TurnEvents(t)[1].topic = ExpectedTerminal(t).topic
                 /\ TurnEvents(t)[1].payload.message = ExpectedTerminal(t).message
                 /\ TurnEvents(t)[1].payload.error = ExpectedTerminal(t).error

\* Without a store, a turn with tool calls and a turn that carries a session id have
\* both finished.
C32_Witness ==
  /\ Ephemeral
  /\ \E p, q \in 1..Len(procs) :
       /\ procs[p].pc = "done" /\ procs[q].pc = "done"
       /\ turns[procs[p].turn].script.toolRounds > 0
       /\ SessionOf(procs[q].turn) # Undefined

(***************************************************************************)
(* Claims about which session a turn's messages reach                      *)
(***************************************************************************)

\* Event row r holds a message the loop made for turn t: the turn's user message or
\* the result of one of its tool calls (the assistant texts do not tell the turns
\* apart).
MadeFor(r, t) ==
  \/ r.role = "user" /\ r.content = turns[t].payload.message
  \/ r.role = "tool" /\ r.tool_call_id \in EarlierCalls(t, turns[t].script.toolRounds)

\* C33: every message the loop persisted for a turn that carries session id S is
\* stored in session S.
C33_StoredInOwnSession ==
  \A j \in 1..Len(db.events), t \in 1..Len(turns) :
    (SessionOf(t) # Undefined /\ MadeFor(db.events[j], t)) =>
      db.events[j].session_id = SessionOf(t)

\* C34: no session holds a message the loop made for a turn that carried no session
\* id.
C34_NoSessionNoWrite ==
  \A j \in 1..Len(db.events), t \in 1..Len(turns) :
    SessionOf(t) = Undefined => ~MadeFor(db.events[j], t)

\* Chat message m belongs to a session other than S: it is the message session s1
\* held before the loop started, or the user message or a tool result of a turn that
\* carried another session id.
ForeignTo(m, S) ==
  \/ m.role = "user" /\ m.content = StoredOld.content /\ S # "s1"
  \/ \E u \in 1..Len(turns) :
       /\ SessionOf(u) \notin {S, Undefined}
       /\ \/ m.role = "user" /\ m.content = turns[u].payload.message
          \/ m.role = "tool" /\ m.toolCallId \in EarlierCalls(u, turns[u].script.toolRounds)

\* C35: the history a generate call is given in a turn that carries session id S
\* holds no message that belongs to another session.
C35_HistoryOfOwnSession ==
  \A p \in 1..Len(procs) :
    LET pr == procs[p]
        S == SessionOf(pr.turn)
    IN (pr.pc = "generate" /\ S # Undefined) =>
         \A i \in 1..Len(pr.seen) : ~ForeignTo(pr.seen[i], S)

(***************************************************************************)
(* Claims about interleaved persistMessage calls                           *)
(***************************************************************************)

\* C36: when persistMessage completes without error for a session it found in the
\* store, the update it made has appended its message to that session's events.
C36_NoLostAppend ==
  [][\A p \in ProcIds :
       (/\ At(p, "persist_get")
        /\ procs[p].sess.found
        /\ procs'[p].pc = "persist_ret") =>
         /\ Len(db'.events) = Len(db.events) + 1
         /\ db'.events[Len(db'.events)] =
              MessageToRow(currentSessionId, Stamp(procs[p].msg, clock))]_vars

(***************************************************************************)
(* Claims about the iteration of publish                                   *)
(***************************************************************************)

\* The ids of the subscriptions registered when publish call c started.
PresentIds(c) == { c.present[i].id : i \in 1..Len(c.present) }

\* C37: a publish call invokes only handlers of subscriptions that were registered
\* when the call started; a subscription made by a handler during the call does not
\* receive the event in flight.
C37_OnlySubscribersAtStart ==
  \A n \in 1..Len(busCalls) : InvokedIds(busCalls[n]) \subseteq PresentIds(busCalls[n])

\* The predicate of a subscription present at the start of publish call c throws.
HasThrowingPredicate(c) ==
  \E i \in 1..Len(c.present) : matches(c.event, c.present[i], FALSE) = "throws"

\* C38: when the filter predicate of one subscription throws, every other
\* subscription that matches the event and stays registered still has its handler
\* invoked, and the promise of publish does not reject.
C38_ThrowingPredicateIsolated ==
  \A n \in 1..Len(busCalls) :
    LET c == busCalls[n]
    IN HasThrowingPredicate(c) =>
         /\ c.state # "rejected"
         /\ \A s \in Whole(c) :
              matches(c.event, s, FALSE) = "true" => s.id \in InvokedIds(c)

(***************************************************************************)
(* Callers that wait for the reply to their own turn                       *)
(***************************************************************************)

\* The filter of a caller's reply subscription: the two terminal topics and nothing
\* else.
ReplyFilter(id) ==
  Subscription(id, TRUE, {"agent.complete", "agent.error"}, Undefined, "none", "reply")

\* The promise a caller waits on for the turn it publishes.
ReplyPromise(t, sub) ==
  [turn |-> t, sub |-> sub, timer |-> "armed", outcome |-> "pending", reply |-> 0,
   handled |-> 0]

\* A started-or-not loop without session store on a bus nobody has subscribed to.
InitReply ==
  /\ db = LoopDb
  /\ storeOpen = TRUE
  /\ clock = 0
  /\ accepted = [s \in SessionIds |-> <<>>]
  /\ allComplete = TRUE
  /\ lastOp = NoOp
  /\ subscribers = <<>>
  /\ sessionStore = FALSE
  /\ history = <<>>
  /\ currentSessionId = Undefined
  /\ procs = <<>>
  /\ turns = <<>>
  /\ published = <<>>
  /\ busCalls = <<>>
  /\ requests = <<>>
  /\ unsubscribed = {}
  /\ stoppedAt = -1

\* A caller handles a text: it subscribes for the reply, then publishes its
\* agent.turn event on a fresh trace and waits on the promise.
Ask ==
  LET t == Len(turns) + 1
      sub == "reply-" \o ToString(t)
      subs == Append(subscribers, ReplyFilter(sub))
  IN /\ TurnPublished(subs, {AgentId}, ShortScripts)
     /\ subscribers' = subs
     /\ requests' = Append(requests, ReplyPromise(t, sub))
     /\ UNCHANGED <<busCalls, unsubscribed>>

NextReply ==
  \/ Start
  \/ Ask
  \/ \E p \in ProcIds : LifeStep(p)

SpecReply == InitReply /\ [][NextReply]_vars

\* The event a caller's promise resolved with.
ReplyOf(req) ==
  published[CHOOSE i \in 1..Len(published) : published[i].id = req.reply]

\* C39: reply correlation for concurrent callers. Each caller whose turn the loop
\* handles gets its reply resolved with the terminal event on the trace of its own
\* turn, never with the one of another caller's turn, and once its turn has ended
\* it is not left waiting.
C39_ReplyCorrelation ==
  \A r \in 1..Len(requests) :
    LET req == requests[r]
    IN Delivered(req.turn) =>
         /\ req.outcome = "resolved" => IsOnTrace(ReplyOf(req), req.turn)
         /\ Finished(req.turn) => req.outcome = "resolved"

====
